---- MODULE Spec2Model ----
(***************************************************************************)
(* The Airflow notification channel of the unified alerting notifier       *)
(* (pkg/services/ngalert/notifier/channels/airflow.go): construction of    *)
(* the receiver from its settings documents, and Notify.                   *)
(*                                                                         *)
(* A Go string is a sequence of tokens; a token is a run of characters the *)
(* code never splits ("http://localhost"), or a single character where the *)
(* code looks at characters (the text of the custom conf setting).  The    *)
(* empty string is <<>>.  A Go error is [msg |-> text]; nil is Nil.        *)
(***************************************************************************)
EXTENDS Integers, Sequences, FiniteSets, TLC

\* ---------------------------------------------------------------- bounds
MaxNotify == 2          \* Notify calls made on one Notifier
NumCallers == 2         \* goroutines of the dispatch loop calling Notify

Callers == 1..NumCallers

\* ------------------------------------------------------- values and text
Nil == [nil |-> TRUE]

Quote == "\""

Apostrophe == "'"

Str(t) == [str |-> t]

Num(n) == [num |-> n]

\* simplejson: Get of a key the document lacks yields a null node
Get(doc, key) == IF key \in DOMAIN doc THEN doc[key] ELSE [null |-> TRUE]

\* simplejson: MustString yields "" for every node that is not a string
MustString(node) == IF "str" \in DOMAIN node THEN node.str ELSE <<>>

\* strings.ReplaceAll for a one-character old and new
ReplaceAll(s, old, new) == [i \in 1..Len(s) |-> IF s[i] = old THEN new ELSE s[i]]

\* fmt.Sprintf(airflowUrl, url, dagId), airflowUrl = "%s/api/v1/dags/%s/dagRuns"
airflowUrl(url, dagId) == url \o <<"/api/v1/dags/">> \o dagId \o <<"/dagRuns">>

\* the secrets service's GetDecryptedValue: the decrypted secure value when
\* the secure document has the key, the fallback otherwise.  A stored secret
\* is <<"enc:", plaintext...>>; decryption drops the first token.
Decrypt(cipher) == Tail(cipher)

decryptFunc(secure, key, fallback) ==
    IF key \in DOMAIN secure THEN Decrypt(secure[key]) ELSE fallback

\* ------------------------------------------------------- NewAirflowConfig
errDagId == [msg |-> <<"Could not find ", "DAG ID", " property in settings">>]

errUrl == [msg |-> <<"Could not find ", "url", " property in settings">>]

\* the plaintext password preferred to the secure one
ConfigPassword_PlainFirst(config) ==
    IF "password" \in DOMAIN config.Settings
    THEN MustString(Get(config.Settings, "password"))
    ELSE decryptFunc(config.SecureSettings, "password", <<>>)

ConfigPassword(config) ==
    decryptFunc(config.SecureSettings, "password",
                MustString(Get(config.Settings, "password")))

ConfigConf(config) ==
    ReplaceAll(MustString(Get(config.Settings, "conf")), Apostrophe, Quote)

\* NewAirflowConfig without the check of url
NewAirflowConfig_NoUrlCheck(config) ==
    LET dagId == MustString(Get(config.Settings, "dagId"))
        url   == MustString(Get(config.Settings, "url"))
    IN  IF dagId = <<>> THEN [cfg |-> Nil, err |-> errDagId, decrypts |-> 0]
        ELSE [cfg |-> [URL         |-> url,
                       DagID       |-> dagId,
                       User        |-> MustString(Get(config.Settings, "username")),
                       Password    |-> ConfigPassword(config),
                       RunId       |-> MustString(Get(config.Settings, "runId")),
                       LogicalDate |-> MustString(Get(config.Settings, "logicalDate")),
                       State       |-> MustString(Get(config.Settings, "state")),
                       Conf        |-> ConfigConf(config)],
              err |-> Nil, decrypts |-> 1]

\* the result of NewAirflowConfig: (cfg, err) and the number of times the
\* decrypt function was invoked on the way
NewAirflowConfig(config) ==
    LET dagId == MustString(Get(config.Settings, "dagId"))
        url   == MustString(Get(config.Settings, "url"))
    IN  IF dagId = <<>> THEN [cfg |-> Nil, err |-> errDagId, decrypts |-> 0]
        ELSE IF url = <<>> THEN [cfg |-> Nil, err |-> errUrl, decrypts |-> 0]
        ELSE [cfg |-> [URL         |-> url,
                       DagID       |-> dagId,
                       User        |-> MustString(Get(config.Settings, "username")),
                       Password    |-> ConfigPassword(config),
                       RunId       |-> MustString(Get(config.Settings, "runId")),
                       LogicalDate |-> MustString(Get(config.Settings, "logicalDate")),
                       State       |-> MustString(Get(config.Settings, "state")),
                       Conf        |-> ConfigConf(config)],
              err |-> Nil, decrypts |-> 1]

\* NewAirflowNotifier: the Base identity of the receiver and the config fields
NewAirflowNotifier(config, cfg) ==
    [Name                  |-> config.Name,
     Type                  |-> config.Type,
     DisableResolveMessage |-> config.DisableResolveMessage,
     URL         |-> cfg.URL,
     DagID       |-> cfg.DagID,
     User        |-> cfg.User,
     Password    |-> cfg.Password,
     RunId       |-> cfg.RunId,
     LogicalDate |-> cfg.LogicalDate,
     State       |-> cfg.State,
     Conf        |-> cfg.Conf]

\* the reason of the configuration error replaced by a generic one
receiverInitError_NoReason(reason, config) ==
    [Reason |-> <<"invalid settings">>, Cfg |-> config]

receiverInitError(reason, config) == [Reason |-> reason, Cfg |-> config]

\* ----------------------------------------------------------- json.Unmarshal
\* The text of conf is tokenised into the punctuation characters, the two
\* quote characters and words.  The decoder accepts the literal null and
\* objects whose members are strings, numbers or null; every other text
\* (empty, truncated, a top-level array, string or number) is an error, as
\* json.Unmarshal into a map[string]interface{} reports for it.
Digits == {"0", "1"}

ParseFail == [ok |-> FALSE, val |-> <<>>, next |-> 0]

\* a string literal starting at s[i]: up to the next quote character
ParseString(s, i) ==
    IF i > Len(s) \/ s[i] # Quote THEN ParseFail
    ELSE LET closing == {j \in (i+1)..Len(s) : s[j] = Quote}
         IN  IF closing = {} THEN ParseFail
             ELSE LET j == CHOOSE m \in closing : \A n \in closing : m <= n
                  IN  [ok |-> TRUE, val |-> SubSeq(s, i+1, j-1), next |-> j+1]

ParseScalar(s, i) ==
    IF i > Len(s) THEN ParseFail
    ELSE IF s[i] = Quote THEN
        LET r == ParseString(s, i)
        IN  IF r.ok THEN [ok |-> TRUE, val |-> Str(r.val), next |-> r.next] ELSE ParseFail
    ELSE IF s[i] = "null" THEN [ok |-> TRUE, val |-> [null |-> TRUE], next |-> i+1]
    ELSE IF s[i] \in Digits THEN [ok |-> TRUE, val |-> Num(s[i]), next |-> i+1]
    ELSE ParseFail

\* m[k] = v of a Go map
Put(m, k, v) == [x \in DOMAIN m \cup {k} |-> IF x = k THEN v ELSE m[x]]

EmptyMap == [k \in {} |-> k]

\* the members of an object, s[i] being the first character after "{" or ","
RECURSIVE ParseMembers(_, _, _)
ParseMembers(s, i, acc) ==
    LET k == ParseString(s, i)
    IN  IF ~k.ok \/ k.next > Len(s) THEN ParseFail
        ELSE IF s[k.next] # ":" THEN ParseFail
        ELSE LET v == ParseScalar(s, k.next + 1)
             IN  IF ~v.ok \/ v.next > Len(s) THEN ParseFail
                 ELSE IF s[v.next] = "}"
                      THEN [ok |-> TRUE, val |-> Put(acc, k.val, v.val), next |-> v.next + 1]
                 ELSE IF s[v.next] = ","
                      THEN ParseMembers(s, v.next + 1, Put(acc, k.val, v.val))
                 ELSE ParseFail

\* json.Unmarshal(data, &conf) for a nil conf: err, and conf afterwards
\* (isNil: conf is still the nil map; m: its entries)
Unmarshal(data) ==
    IF data = <<"null">> THEN [err |-> FALSE, isNil |-> TRUE, m |-> EmptyMap]
    ELSE IF Len(data) >= 2 /\ data[1] = "{" THEN
        IF data = <<"{", "}">> THEN [err |-> FALSE, isNil |-> FALSE, m |-> EmptyMap]
        ELSE LET r == ParseMembers(data, 2, EmptyMap)
             IN  IF r.ok /\ r.next = Len(data) + 1
                 THEN [err |-> FALSE, isNil |-> FALSE, m |-> r.val]
                 ELSE [err |-> TRUE, isNil |-> TRUE, m |-> EmptyMap]
    ELSE [err |-> TRUE, isNil |-> TRUE, m |-> EmptyMap]

\* ------------------------------------------------------------------ Notify
\* tmpl.ExternalURL of the deployment
ExternalURL == <<"http://localhost">>

\* joinUrlPath for a base URL without a trailing slash
joinUrlPath(base, path) == base \o path

\* an alert whose data the templates cannot render
BadAlert == "alert_bad"

\* the alerts of the batch that are rendered before the first error
RECURSIVE Rendered(_)
Rendered(as) == IF as = <<>> \/ Head(as) = BadAlert THEN <<>>
                ELSE <<Head(as)>> \o Rendered(Tail(as))

\* tmplErr after TmplText has rendered over the batch: the first error, or nil
tmplErr(as) == IF \E i \in 1..Len(as) : as[i] = BadAlert
               THEN [msg |-> <<"template: cannot render ", BadAlert>>]
               ELSE Nil

\* the text a named template renders over the alert batch: best effort, the
\* output up to the first error
tmpl(name, as) == <<name>> \o Rendered(as)

\* the custom conf dropped: only the trigger entry reaches the body
NotifyConf_IgnoreCustom(an) ==
    LET u == Unmarshal(an.Conf)
    IN  IF u.err THEN [isNil |-> FALSE, m |-> EmptyMap]
        ELSE [isNil |-> u.isNil, m |-> EmptyMap]

\* the conf map of Notify before the trigger entry is added
NotifyConf(an) ==
    LET u == Unmarshal(an.Conf)
    IN  IF u.err THEN [isNil |-> FALSE, m |-> EmptyMap]
        ELSE [isNil |-> u.isNil, m |-> u.m]

NotifyContent(as) ==
    [client      |-> <<"Grafana">>,
     client_url  |-> joinUrlPath(ExternalURL, <<"/alerting/list">>),
     description |-> tmpl("default.title", as),
     details     |-> tmpl("default.message", as)]

\* bodyJSON of Notify, as the JSON document its text denotes
NotifyBody(an, as) ==
    LET conf == Put(NotifyConf(an).m, <<"trigger">>, NotifyContent(as))
        keys == {"conf"}
                \cup (IF an.RunId # <<>> THEN {"dag_run_id"} ELSE {})
                \cup (IF an.LogicalDate # <<>> THEN {"logical_date"} ELSE {})
                \cup (IF an.State # <<>> THEN {"state"} ELSE {})
    IN  [k \in keys |-> CASE k = "dag_run_id"   -> an.RunId
                          [] k = "logical_date" -> an.LogicalDate
                          [] k = "state"        -> an.State
                          [] OTHER              -> conf]

\* cmd, the models.SendWebhookSync that Notify hands to the sender
NotifyCmd(an, as) ==
    [Url        |-> airflowUrl(an.URL, an.DagID),
     User       |-> an.User,
     Password   |-> an.Password,
     HttpMethod |-> "POST",
     HttpHeader |-> ("Content-Type" :> "application/json" @@ "Accept" :> "application/json"),
     Body       |-> NotifyBody(an, as)]

\* conf["trigger"] = content on a nil map panics
NotifyPanics(an) == NotifyConf(an).isNil

\* the sender's error wrapped before it is returned
NotifyResult_Wrap(ret) ==
    IF ret # Nil THEN [ok |-> FALSE, err |-> [msg |-> <<"airflow: ">> \o ret.msg]]
    ELSE [ok |-> TRUE, err |-> Nil]

\* (bool, error) of Notify for the error the sender returned
NotifyResult(ret) == IF ret # Nil THEN [ok |-> FALSE, err |-> ret]
                     ELSE [ok |-> TRUE, err |-> Nil]

\* ------------------------------------------------------------------- state
VARIABLES
    config,        \* the NotificationChannelConfig snapshot passed to the factory
    phase,         \* "new", then "failed" or "built"
    cfgErr,        \* the error NewAirflowConfig returned
    factoryErr,    \* the error AirflowFactory returned
    notifier,      \* the AirflowNotifier the factory returned
    decryptCalls,  \* invocations of the decrypt function
    pc,            \* per caller: "idle", "sending", "done", "panic"
    as,            \* per caller: the alert batch of its current Notify call
    cmd,           \* per caller: the request its current Notify call built
    calls,         \* per caller: Notify calls started
    result,        \* per caller: what its last Notify call returned
    sent,          \* the calls the Webhook Sender received, in order
    resolved       \* the values SendResolved has returned

vars == <<config, phase, cfgErr, factoryErr, notifier, decryptCalls,
          pc, as, cmd, calls, result, sent, resolved>>

Absent == [absent |-> TRUE]

\* a settings document: the keys of the choice that are not Absent
Doc(choice) == [k \in {x \in DOMAIN choice : choice[x] # Absent} |-> choice[k]]

UrlNodes == {Absent, Str(<<>>), Str(<<"http://localhost">>), Num("1")}

DagNodes == {Absent, Str(<<>>), Str(<<"somedag">>), Num("1")}

ConfNodes ==
    {Absent,
     Str(<<>>),
     Str(<<"null">>),
     Str(<<"[", "1", "]">>),
     Str(<<"{", Apostrophe, "k", Apostrophe, ":", Apostrophe, "v", Apostrophe>>),
     Str(<<"{", Apostrophe, "k", Apostrophe, ":", Apostrophe, "v", Apostrophe, "}">>),
     Str(<<"{", Quote, "trigger", Quote, ":", "1", ",", Quote, "k", Quote, ":", "null", "}">>)}

Opt(t) == {Absent, Str(t)}

\* documents over the required keys: each missing, empty, not a string, or set
RequiredDocs ==
    { Doc([url |-> u, dagId |-> d]) : u \in UrlNodes, d \in DagNodes }

\* valid documents over the credentials
CredentialDocs ==
    { Doc([url |-> Str(<<"http://localhost">>), dagId |-> Str(<<"somedag">>),
           username |-> n, password |-> p]) :
        n \in Opt(<<"admin">>), p \in Opt(<<"plain">>) }

\* valid documents over the settings that shape the body: every choice of
\* the three optional fields, and every conf
BodyDocs ==
    { Doc([url |-> Str(<<"http://localhost">>), dagId |-> Str(<<"somedag">>),
           runId |-> r, logicalDate |-> l, state |-> s]) :
        r \in Opt(<<"run1">>), l \in Opt(<<"2022-01-01">>), s \in Opt(<<"queued">>) }
    \cup
    { Doc([url |-> Str(<<"http://localhost">>), dagId |-> Str(<<"somedag">>),
           conf |-> c]) :
        c \in ConfNodes }

\* documents over the keys of TestAirflowNotifier
TestDocs ==
    { Doc([airflowEndpoint |-> e, dagID |-> d]) :
        e \in Opt(<<"http://localhost">>), d \in Opt(<<"somedag">>) }

SecureDoc == [password |-> <<"enc:", "secret">>]

\* the settings and secure settings documents a receiver is configured with
Documents ==
    ((RequiredDocs \cup CredentialDocs \cup BodyDocs \cup TestDocs) \X {EmptyMap})
    \cup ((RequiredDocs \cup CredentialDocs) \X {SecureDoc})

Batches == {<<"alert1">>, <<"alert1", "alert2">>, <<"alert1", BadAlert>>}

SenderErrors == {[msg |-> <<"transport failure">>], [msg |-> <<"context canceled">>]}

NoNotifier == [none |-> TRUE]

NoCmd == [none |-> TRUE]

NoResult == [none |-> TRUE]

Init ==
    /\ \E d \in Documents, drm \in BOOLEAN :
         config = [Name |-> <<"airflow_testing">>, Type |-> <<"airflow">>,
                   DisableResolveMessage |-> drm,
                   Settings |-> d[1], SecureSettings |-> d[2]]
    /\ phase = "new"
    /\ cfgErr = Nil
    /\ factoryErr = Nil
    /\ notifier = NoNotifier
    /\ decryptCalls = 0
    /\ pc = [c \in Callers |-> "idle"]
    /\ as = [c \in Callers |-> <<>>]
    /\ cmd = [c \in Callers |-> NoCmd]
    /\ calls = [c \in Callers |-> 0]
    /\ result = [c \in Callers |-> NoResult]
    /\ sent = <<>>
    /\ resolved = {}

\* AirflowFactory(fc), NewAirflowConfig failing
FactoryFails ==
    LET r == NewAirflowConfig(config)
    IN  /\ phase = "new"
        /\ r.err # Nil
        /\ phase' = "failed"
        /\ cfgErr' = r.err
        /\ factoryErr' = receiverInitError(r.err.msg, config)
        /\ decryptCalls' = decryptCalls + r.decrypts
        /\ UNCHANGED <<config, notifier, pc, as, cmd, calls, result, sent, resolved>>

\* AirflowFactory(fc), returning NewAirflowNotifier(cfg, ...)
FactoryBuilds ==
    LET r == NewAirflowConfig(config)
    IN  /\ phase = "new"
        /\ r.err = Nil
        /\ phase' = "built"
        /\ notifier' = NewAirflowNotifier(config, r.cfg)
        /\ decryptCalls' = decryptCalls + r.decrypts
        /\ UNCHANGED <<config, cfgErr, factoryErr, pc, as, cmd, calls, result, sent, resolved>>

Crashed == \E c \in Callers : pc[c] = "panic"

RECURSIVE SumCalls(_)
SumCalls(S) == IF S = {} THEN 0
               ELSE LET c == CHOOSE x \in S : TRUE IN calls[c] + SumCalls(S \ {c})

\* Notify calls started so far, over all callers
Started == SumCalls(Callers)

\* the goroutines are interchangeable: they are numbered in the order of
\* their first Notify call
FirstCome(c) == \A d \in Callers : d < c => calls[d] > 0

\* the password decrypted again by every Notify call
NotifyBuild_Decrypts(c, batch) ==
    /\ phase = "built"
    /\ ~Crashed
    /\ pc[c] \in {"idle", "done"}
    /\ Started < MaxNotify
    /\ FirstCome(c)
    /\ calls' = [calls EXCEPT ![c] = @ + 1]
    /\ as' = [as EXCEPT ![c] = batch]
    /\ result' = [result EXCEPT ![c] = NoResult]
    /\ IF NotifyPanics(notifier)
       THEN /\ pc' = [pc EXCEPT ![c] = "panic"]
            /\ cmd' = [cmd EXCEPT ![c] = NoCmd]
       ELSE /\ pc' = [pc EXCEPT ![c] = "sending"]
            /\ cmd' = [cmd EXCEPT ![c] = NotifyCmd(notifier, batch)]
    /\ decryptCalls' = decryptCalls + 1
    /\ UNCHANGED <<config, phase, cfgErr, factoryErr, notifier, sent, resolved>>

\* a conf that does not decode replaced in the Notifier by the empty object
NotifyBuild_NormalisesConf(c, batch) ==
    /\ phase = "built"
    /\ ~Crashed
    /\ pc[c] \in {"idle", "done"}
    /\ Started < MaxNotify
    /\ FirstCome(c)
    /\ calls' = [calls EXCEPT ![c] = @ + 1]
    /\ as' = [as EXCEPT ![c] = batch]
    /\ result' = [result EXCEPT ![c] = NoResult]
    /\ IF NotifyPanics(notifier)
       THEN /\ pc' = [pc EXCEPT ![c] = "panic"]
            /\ cmd' = [cmd EXCEPT ![c] = NoCmd]
       ELSE /\ pc' = [pc EXCEPT ![c] = "sending"]
            /\ cmd' = [cmd EXCEPT ![c] = NotifyCmd(notifier, batch)]
    /\ notifier' = [notifier EXCEPT !.Conf = IF Unmarshal(@).err THEN <<"{", "}">> ELSE @]
    /\ UNCHANGED <<config, phase, cfgErr, factoryErr, decryptCalls, sent, resolved>>

\* Notify returning the template error instead of sending
NotifyBuild_AbortsOnTmplErr(c, batch) ==
    /\ phase = "built"
    /\ ~Crashed
    /\ pc[c] \in {"idle", "done"}
    /\ Started < MaxNotify
    /\ FirstCome(c)
    /\ calls' = [calls EXCEPT ![c] = @ + 1]
    /\ as' = [as EXCEPT ![c] = batch]
    /\ IF NotifyPanics(notifier)
       THEN /\ pc' = [pc EXCEPT ![c] = "panic"]
            /\ cmd' = [cmd EXCEPT ![c] = NoCmd]
            /\ result' = [result EXCEPT ![c] = NoResult]
       ELSE IF tmplErr(batch) # Nil
       THEN /\ pc' = [pc EXCEPT ![c] = "done"]
            /\ cmd' = [cmd EXCEPT ![c] = NoCmd]
            /\ result' = [result EXCEPT ![c] = [ok |-> FALSE, err |-> tmplErr(batch)]]
       ELSE /\ pc' = [pc EXCEPT ![c] = "sending"]
            /\ cmd' = [cmd EXCEPT ![c] = NotifyCmd(notifier, batch)]
            /\ result' = [result EXCEPT ![c] = NoResult]
    /\ UNCHANGED <<config, phase, cfgErr, factoryErr, notifier, decryptCalls, sent, resolved>>

\* the number of the Notify call added to the conf of the body
NotifyBuild_NumbersRuns(c, batch) ==
    /\ phase = "built"
    /\ ~Crashed
    /\ pc[c] \in {"idle", "done"}
    /\ Started < MaxNotify
    /\ FirstCome(c)
    /\ calls' = [calls EXCEPT ![c] = @ + 1]
    /\ as' = [as EXCEPT ![c] = batch]
    /\ result' = [result EXCEPT ![c] = NoResult]
    /\ IF NotifyPanics(notifier)
       THEN /\ pc' = [pc EXCEPT ![c] = "panic"]
            /\ cmd' = [cmd EXCEPT ![c] = NoCmd]
       ELSE /\ pc' = [pc EXCEPT ![c] = "sending"]
            /\ cmd' = [cmd EXCEPT ![c] =
                         [NotifyCmd(notifier, batch) EXCEPT
                            !.Body = [@ EXCEPT !["conf"] = Put(@, <<"attempt">>, Num(Started))]]]
    /\ UNCHANGED <<config, phase, cfgErr, factoryErr, notifier, decryptCalls, sent, resolved>>

\* the request kept in a field of the Notifier that the calls in flight share
NotifyBuild_SharedCmd(c, batch) ==
    /\ phase = "built"
    /\ ~Crashed
    /\ pc[c] \in {"idle", "done"}
    /\ Started < MaxNotify
    /\ FirstCome(c)
    /\ calls' = [calls EXCEPT ![c] = @ + 1]
    /\ as' = [as EXCEPT ![c] = batch]
    /\ result' = [result EXCEPT ![c] = NoResult]
    /\ IF NotifyPanics(notifier)
       THEN /\ pc' = [pc EXCEPT ![c] = "panic"]
            /\ cmd' = [cmd EXCEPT ![c] = NoCmd]
       ELSE /\ pc' = [pc EXCEPT ![c] = "sending"]
            /\ cmd' = [d \in Callers |-> IF d = c \/ pc[d] = "sending"
                                         THEN NotifyCmd(notifier, batch) ELSE cmd[d]]
    /\ UNCHANGED <<config, phase, cfgErr, factoryErr, notifier, decryptCalls, sent, resolved>>

\* Notify up to the call of the sender: the request is built, or the
\* assignment to the nil conf map panics and the process dies
NotifyBuild(c, batch) ==
    /\ phase = "built"
    /\ ~Crashed
    /\ pc[c] \in {"idle", "done"}
    /\ Started < MaxNotify
    /\ FirstCome(c)
    /\ calls' = [calls EXCEPT ![c] = @ + 1]
    /\ as' = [as EXCEPT ![c] = batch]
    /\ result' = [result EXCEPT ![c] = NoResult]
    /\ IF NotifyPanics(notifier)
       THEN /\ pc' = [pc EXCEPT ![c] = "panic"]
            /\ cmd' = [cmd EXCEPT ![c] = NoCmd]
       ELSE /\ pc' = [pc EXCEPT ![c] = "sending"]
            /\ cmd' = [cmd EXCEPT ![c] = NotifyCmd(notifier, batch)]
    /\ UNCHANGED <<config, phase, cfgErr, factoryErr, notifier, decryptCalls, sent, resolved>>

\* one call of the sender per alert of the batch
NotifySend_PerAlert(c, ret) ==
    /\ pc[c] = "sending"
    /\ ~Crashed
    /\ sent' = sent \o [i \in 1..Len(as[c]) |->
                          [caller |-> c, call |-> calls[c], batch |-> as[c], cmd |-> cmd[c],
                           ret |-> ret]]
    /\ result' = [result EXCEPT ![c] = NotifyResult(ret)]
    /\ pc' = [pc EXCEPT ![c] = "done"]
    /\ UNCHANGED <<config, phase, cfgErr, factoryErr, notifier, decryptCalls, as, cmd, calls,
                   resolved>>

\* an.ns.SendWebhookSync(ctx, cmd) returning ret, and Notify returning
NotifySend(c, ret) ==
    /\ pc[c] = "sending"
    /\ ~Crashed
    /\ sent' = Append(sent, [caller |-> c, call |-> calls[c], batch |-> as[c], cmd |-> cmd[c],
                           ret |-> ret])
    /\ result' = [result EXCEPT ![c] = NotifyResult(ret)]
    /\ pc' = [pc EXCEPT ![c] = "done"]
    /\ UNCHANGED <<config, phase, cfgErr, factoryErr, notifier, decryptCalls, as, cmd, calls,
                   resolved>>

\* the flag returned as it is
SendResolved_NotNegated ==
    /\ phase = "built"
    /\ ~Crashed
    /\ resolved' = resolved \cup {notifier.DisableResolveMessage}
    /\ UNCHANGED <<config, phase, cfgErr, factoryErr, notifier, decryptCalls,
                   pc, as, cmd, calls, result, sent>>

\* SendResolved(): the negation of the flag the Base was built with
SendResolved ==
    /\ phase = "built"
    /\ ~Crashed
    /\ resolved' = resolved \cup {~notifier.DisableResolveMessage}
    /\ UNCHANGED <<config, phase, cfgErr, factoryErr, notifier, decryptCalls,
                   pc, as, cmd, calls, result, sent>>

Next ==
    \/ FactoryFails
    \/ FactoryBuilds
    \/ \E c \in Callers, batch \in Batches : NotifyBuild(c, batch)
    \/ \E c \in Callers, ret \in {Nil} \cup SenderErrors : NotifySend(c, ret)
    \/ SendResolved

Spec == Init /\ [][Next]_vars

\* ================================================================== claims
\* a required key is missing from the settings document, or is the empty string
Missing(key) ==
    \/ key \notin DOMAIN config.Settings
    \/ config.Settings[key] = Str(<<>>)

C2_LiteralMessage ==
    phase = "failed" =>
        /\ (Missing("dagId") /\ ~Missing("url"))
              => cfgErr = [msg |-> <<"could not find ", "DAG ID", " property in settings">>]
        /\ (Missing("url") /\ ~Missing("dagId"))
              => cfgErr = [msg |-> <<"could not find ", "url", " property in settings">>]

\* C3: when both url and dagId are missing, the error names url, the first
\* required field in declared order, and only that field.
C3_FirstDeclaredFieldNamed ==
    (phase = "failed" /\ Missing("url") /\ Missing("dagId"))
        => /\ "url" \in {cfgErr.msg[i] : i \in 1..Len(cfgErr.msg)}
           /\ "DAG ID" \notin {cfgErr.msg[i] : i \in 1..Len(cfgErr.msg)}

OnlyDagDoc == [dagID |-> Str(<<"somedag">>)]

OnlyEndpointDoc == [airflowEndpoint |-> Str(<<"http://localhost">>)]

\* C4: as TestAirflowNotifier asserts, settings with only "dagID" fail with
\* exactly "could not find Airflow API endpoint property in settings" and
\* settings with only "airflowEndpoint" fail with exactly
\* "could not find Airflow DAG property in settings".
C4_TestInitErrors ==
    /\ (phase # "new" /\ config.Settings = OnlyDagDoc)
          => /\ phase = "failed"
             /\ cfgErr = [msg |-> <<"could not find ", "Airflow API endpoint",
                                    " property in settings">>]
    /\ (phase # "new" /\ config.Settings = OnlyEndpointDoc)
          => /\ phase = "failed"
             /\ cfgErr = [msg |-> <<"could not find ", "Airflow DAG",
                                    " property in settings">>]

\* the sender calls made by the current Notify call of caller c
CallsOf(c) == {i \in 1..Len(sent) : sent[i].caller = c /\ sent[i].call = calls[c]}

\* C5: when the sender succeeds, the Notify call has called SendWebhookSync
\* exactly once for the whole batch, with method POST, the URL
\* <url>/api/v1/dags/<dagId>/dagRuns, the two JSON headers and the configured
\* user and password, and it returns (true, nil).
C5_OneRequestPerBatch ==
    \A c \in Callers :
        (pc[c] = "done" /\ \E i \in CallsOf(c) : sent[i].ret = Nil)
            => /\ Cardinality(CallsOf(c)) = 1
               /\ result[c] = [ok |-> TRUE, err |-> Nil]
               /\ \A i \in CallsOf(c) :
                     /\ sent[i].cmd.HttpMethod = "POST"
                     /\ sent[i].cmd.Url = config.Settings["url"].str \o <<"/api/v1/dags/">>
                                             \o config.Settings["dagId"].str \o <<"/dagRuns">>
                     /\ sent[i].cmd.HttpHeader =
                            ("Content-Type" :> "application/json" @@ "Accept" :> "application/json")
                     /\ sent[i].cmd.User = (IF "username" \in DOMAIN config.Settings
                                            THEN config.Settings["username"].str ELSE <<>>)
                     /\ sent[i].cmd.Password = notifier.Password

C5_Witness ==
    \E c \in Callers :
        /\ pc[c] = "done"
        /\ Len(as[c]) = 2
        /\ result[c] = [ok |-> TRUE, err |-> Nil]
        /\ \E i \in CallsOf(c) : sent[i].cmd.User = <<"admin">>

\* C6: when the sender returns an error, Notify returns (false, err) with
\* exactly that error, and the Notify call has called the sender exactly once.
C6_TransportErrorVerbatim ==
    \A c \in Callers : \A i \in CallsOf(c) :
        (pc[c] = "done" /\ sent[i].ret # Nil)
            => /\ result[c] = [ok |-> FALSE, err |-> sent[i].ret]
               /\ Cardinality(CallsOf(c)) = 1

C6_Witness ==
    \E c \in Callers : \E i \in CallsOf(c) :
        /\ pc[c] = "done"
        /\ sent[i].ret = [msg |-> <<"context canceled">>]
        /\ result[c].ok = FALSE

\* C7: for every settings document NewAirflowConfig accepts, whatever its
\* conf, Notify on a non-empty batch never panics; it returns (true, nil) or
\* (false, err).
C7_NotifyNeverPanics ==
    \A c \in Callers :
        /\ pc[c] # "panic"
        /\ pc[c] = "done" => \/ result[c] = [ok |-> TRUE, err |-> Nil]
                             \/ result[c].ok = FALSE /\ result[c].err # Nil

\* the shape of the outbound body for the keys that the trigger object has
BodyShape(triggerKeys) ==
    \A i \in 1..Len(sent) :
        LET body == sent[i].cmd.Body
            custom == Unmarshal(notifier.Conf)
        IN  /\ "dag_run_id" \in DOMAIN body <=> notifier.RunId # <<>>
            /\ "logical_date" \in DOMAIN body <=> notifier.LogicalDate # <<>>
            /\ "state" \in DOMAIN body <=> notifier.State # <<>>
            /\ DOMAIN body \subseteq {"dag_run_id", "logical_date", "state", "conf"}
            /\ "conf" \in DOMAIN body
            /\ ~custom.err => DOMAIN custom.m \subseteq DOMAIN body["conf"]
            /\ <<"trigger">> \in DOMAIN body["conf"]
            /\ DOMAIN body["conf"][<<"trigger">>] = triggerKeys

TestDoc == [airflowEndpoint |-> Str(<<"http://localhost">>), dagID |-> Str(<<"somedag">>)]

\* C9: as TestAirflowNotifier asserts, for the settings {airflowEndpoint,
\* dagID} construction succeeds, Notify returns (true, nil) when the sender
\* succeeds, the sender receives the URL
\* http://localhost/api/v1/dags/somedag/dagRuns and the body {"conf": {}}.
C9_TestNotify ==
    (phase # "new" /\ config.Settings = TestDoc)
        => /\ phase = "built"
           /\ \A i \in 1..Len(sent) :
                 /\ sent[i].cmd.Url = <<"http://localhost", "/api/v1/dags/", "somedag", "/dagRuns">>
                 /\ DOMAIN sent[i].cmd.Body = {"conf"}
                 /\ DOMAIN sent[i].cmd.Body["conf"] = {}
           /\ \A c \in Callers : \A i \in CallsOf(c) :
                 (pc[c] = "done" /\ sent[i].ret = Nil) => result[c] = [ok |-> TRUE, err |-> Nil]

\* C10: the password of the Notifier is the decrypted secure value when the
\* secure settings have the key "password", else the plaintext "password" of
\* the settings when present, else empty.
C10_PasswordResolution ==
    phase = "built" =>
        notifier.Password =
            IF "password" \in DOMAIN config.SecureSettings THEN <<"secret">>
            ELSE IF "password" \in DOMAIN config.Settings
                 THEN config.Settings["password"].str
                 ELSE <<>>

C10_Witness ==
    /\ phase = "built"
    /\ "password" \in DOMAIN config.SecureSettings
    /\ "password" \in DOMAIN config.Settings
    /\ notifier.Password = <<"secret">>

\* C11: the decrypt function is invoked exactly once per Notifier, at
\* construction; no Notify call, successful or failing, invokes it.
C11_DecryptOnce == phase = "built" => decryptCalls = 1

C11_Witness ==
    /\ phase = "built"
    /\ decryptCalls = 1
    /\ Len(sent) = 2
    /\ \E i, j \in 1..Len(sent) : sent[i].ret = Nil /\ sent[j].ret # Nil

\* C12: no step after construction changes the NotificationChannelConfig
\* snapshot (Settings, SecureSettings, identity) or any field of the Notifier.
C12_ConfigImmutable ==
    [][config' = config /\ (phase = "built" => notifier' = notifier)]_vars

C12_Witness ==
    /\ phase = "built"
    /\ Len(sent) = 2
    /\ resolved # {}
    /\ notifier.Conf = <<"{", Quote, "k", Quote, ":", Quote, "v", Quote, "}">>
    /\ \A i \in 1..Len(sent) : <<"trigger">> \in DOMAIN sent[i].cmd.Body["conf"]

\* C13: when NewAirflowConfig fails, the error of AirflowFactory carries the
\* message of the configuration error as its reason, and the Name and Type of
\* the receiver whose configuration was passed in.
C13_FactoryErrorWraps ==
    phase = "failed" =>
        /\ factoryErr.Reason = cfgErr.msg
        /\ factoryErr.Cfg.Name = config.Name
        /\ factoryErr.Cfg.Type = config.Type

C13_Witness ==
    /\ phase = "failed"
    /\ factoryErr.Reason = <<"Could not find ", "url", " property in settings">>
    /\ factoryErr.Cfg.Name = <<"airflow_testing">>
    /\ factoryErr.Cfg.Type = <<"airflow">>

\* C14: a Notify call whose templates reported an error builds the payload
\* from the text rendered before the error, calls the sender exactly once and
\* returns what the sender decides, (true, nil) when it succeeds; the template
\* error is never the error Notify returns.
C14_TemplateErrorNonFatal ==
    \A c \in Callers :
        tmplErr(as[c]) # Nil =>
            /\ pc[c] = "sending" =>
                  cmd[c].Body["conf"][<<"trigger">>].description
                      = <<"default.title", "alert1">>
            /\ pc[c] = "done" =>
                  /\ Cardinality(CallsOf(c)) = 1
                  /\ result[c].err # tmplErr(as[c])
                  /\ \A i \in CallsOf(c) :
                        result[c] = IF sent[i].ret = Nil THEN [ok |-> TRUE, err |-> Nil]
                                    ELSE [ok |-> FALSE, err |-> sent[i].ret]

C14_Witness ==
    \E c \in Callers :
        /\ pc[c] = "done"
        /\ as[c] = <<"alert1", BadAlert>>
        /\ result[c] = [ok |-> TRUE, err |-> Nil]

C16_NoInterference ==
    /\ \A c \in Callers :
          /\ pc[c] = "sending" => cmd[c] = NotifyCmd(notifier, as[c])
          /\ pc[c] = "done" =>
                \A i \in CallsOf(c) :
                    /\ sent[i].batch = as[c]
                    /\ result[c] = NotifyResult(sent[i].ret)
    /\ \A i \in 1..Len(sent) :
          /\ sent[i].cmd = NotifyCmd(notifier, sent[i].batch)
          /\ sent[i].cmd.Body["conf"][<<"trigger">>].details
                 = <<"default.message">> \o Rendered(sent[i].batch)

\* caller 1 entered Notify first and caller 2 got its answer first
C16_Witness ==
    /\ Len(sent) = 2
    /\ sent[1].caller = 2 /\ sent[1].call = 1
    /\ sent[2].caller = 1 /\ sent[2].call = 1
    /\ sent[1].batch # sent[2].batch
    /\ pc[1] = "done" /\ result[1] = [ok |-> TRUE, err |-> Nil]
    /\ pc[2] = "done" /\ result[2] = [ok |-> FALSE, err |-> sent[1].ret]

\* C17: SendResolved returns the negation of the DisableResolveMessage flag
\* the Notifier was constructed with, the same value on every call.
C17_SendResolved ==
    phase = "built" => resolved \subseteq {~config.DisableResolveMessage}

C17_Witness ==
    /\ resolved = {FALSE}
    /\ config.DisableResolveMessage
    /\ Len(sent) = 2

====
